---- MODULE Spec2Model ----
(***************************************************************************)
(* fam-auth: the user account operations of UserQuery                      *)
(* (src/repository/data_access/querysets/user.py) over the users table of  *)
(* src/models/user.py, invoked by concurrent callers, each with a session  *)
(* of its own.  A caller's operation runs in steps that are cut at the     *)
(* awaits of the code: the SELECT with the checks that follow it, and the   *)
(* commit that makes its INSERT or UPDATE durable.                          *)
(***************************************************************************)
EXTENDS Integers, Sequences, FiniteSets, TLC

\* ------------------------------------------------------------------ bounds
\* the clock ticks once per request; no request starts at MaxTime
MaxTime == 3
\* rows the users table can hold
MaxUsers == 2

\* ------------------------------------------------------- program constants
\* PHONE_PATTERN: at least 1 and at most 15 digits after the '+'
MinDigits == 1
MaxDigits == 15
\* CheckConstraint check_username_min_length, Field(min_length=4)
MinUsernameLength == 4
\* datetime.now(timezone.utc) as evaluated when models/user.py is imported by
\* the first service process
ImportTime == 0

\* ------------------------------------------------------------ input values
Callers == {"c1", "c2"}
Ids == 1..MaxUsers
\* an id no row has, for lookups that miss
UnknownId == MaxUsers + 1
Usernames == {"abc", "carol", "bob123"}
Emails == {"carol@example.com", "bob@example.com"}
Passwords == {"Secret123", "abc"}
Salts == {"s1"}
Filenames == {"me.png"}
\* phone numbers as sequences of characters; <<>> is the absent (None or "") one
NoPhone == << >>
Phones == {<<"+", "1", "4">>, <<"1", "2", "3">>}
Faults == {"none", "io", "db"}
\* phone numbers at and around the limits of PHONE_PATTERN
Digits15 == <<"1", "2", "3", "4", "5", "6", "7", "8", "9", "0", "1", "2", "3", "4", "5">>
PhoneSamples ==
    {NoPhone,
     <<"+", "1">>,
     <<"+">> \o Digits15,
     <<"+">> \o Digits15 \o <<"6">>,
     <<"+">>,
     <<"1", "2", "3">>,
     <<"+", "1", " ", "4">>,
     <<"+", "1", "(", "4", ")">>,
     <<"+", "1", "a">>,
     <<"1", "+", "4">>,
     <<"+", "1", "4", "\n">>,
     <<"+", "1", "4", "\n", "\n">>,
     <<"\n", "+", "1", "4">>}

\* ------------------------------------------------------------------- nulls
NoTime == 0 - 1
NoImage == << >>
NoHash == [salt |-> "", digest |-> << >>]
NoId == 0

VARIABLES
    users,      \* the committed rows of the users table: id -> row
    files,      \* the files under static/uploads/profile_images/
    now,        \* the clock
    imported,   \* datetime.now(timezone.utc) as the serving process evaluated it
                \* when it imported models/user.py
    pc,         \* each caller's position in its operation
    call,       \* each caller's operation in progress and its arguments
    session,    \* each caller's session: the object it holds, not yet committed
    out         \* the operation that ended last: its caller, call and outcome

vars == <<users, files, now, imported, pc, call, session, out>>

\* ---------------------------------------------------------- credential hasher
\* pwd_context.hash: a salted one-way digest with the salt embedded
hash(password, salt) == [salt |-> salt, digest |-> <<salt, password>>]

\* pwd_context.verify: recompute the digest under the hash's own salt
verify(password, hashed) == hashed.digest = <<hashed.salt, password>>

\* ------------------------------------------------------------------ phone
IsDigit(c) == c \in {"0", "1", "2", "3", "4", "5", "6", "7", "8", "9"}

\* re.match(PHONE_PATTERN, s): '$' also matches before one trailing newline
PhoneMatch(s) ==
    LET body == IF Len(s) > 0 /\ s[Len(s)] = "\n" THEN SubSeq(s, 1, Len(s) - 1) ELSE s
    IN  /\ Len(body) >= 1 + MinDigits
        /\ Len(body) <= 1 + MaxDigits
        /\ body[1] = "+"
        /\ \A i \in 2..Len(body) : IsDigit(body[i])

\* ------------------------------------------------------------ the users table
NoRow ==
    [username |-> "", email |-> "", password |-> NoHash, phone_number |-> NoPhone,
     image |-> NoImage, is_active |-> TRUE, created |-> ImportTime,
     modified |-> ImportTime, last_login |-> NoTime]

\* User(**user_data_dict) with the column defaults of the model
NewUser(user_data, hashed_password) ==
    [username |-> user_data.username, email |-> user_data.email,
     password |-> hashed_password, phone_number |-> user_data.phone_number,
     image |-> NoImage, is_active |-> TRUE, created |-> imported,
     modified |-> imported, last_login |-> NoTime]

\* the username column without its unique constraint
UniqueUsername_NotEnforced(table, id, username) == TRUE

\* Column(unique=True) on username: no other row has it
UniqueUsername(table, id, username) ==
    \A other \in DOMAIN table \ {id} : table[other].username # username

\* the email column without its unique constraint
UniqueEmail_NotEnforced(table, id, email) == TRUE

\* Column(unique=True) on email
UniqueEmail(table, id, email) ==
    \A other \in DOMAIN table \ {id} : table[other].email # email

\* the table without check_username_min_length
CheckUsernameMinLength_NotEnforced(username) == TRUE

\* CheckConstraint("length(username) >= 4")
CheckUsernameMinLength(username) == Len(username) >= MinUsernameLength

\* what the store checks when a row is written; a failure is an IntegrityError
ConstraintsHold(table, id, row) ==
    /\ UniqueUsername(table, id, row.username)
    /\ UniqueEmail(table, id, row.email)
    /\ CheckUsernameMinLength(row.username)

\* select(User).where(User.username == username) ... scalar_one_or_none()
ByUsername(username) == {id \in DOMAIN users : users[id].username = username}

\* select(User).filter(User.email == email) ... scalar_one_or_none()
ByEmail(email) == {id \in DOMAIN users : users[id].email = email}

\* uuid.uuid4: an id no row has
FreshId == CHOOSE id \in Ids : id \notin DOMAIN users

\* onupdate=datetime.now(timezone.utc): the value computed at import
OnUpdate(row) == [row EXCEPT !.modified = imported]

\* the UPDATE without its WHERE clause: every row takes the value
Update_AllRows(table, user_id, column, value) ==
    [id \in DOMAIN table |-> OnUpdate([table[id] EXCEPT ![column] = value])]

\* UPDATE users SET column = value WHERE id = user_id: no row, no effect
Update(table, user_id, column, value) ==
    IF user_id \in DOMAIN table
    THEN [table EXCEPT ![user_id] = OnUpdate([@ EXCEPT ![column] = value])]
    ELSE table

\* ----------------------------------------------------------------- callers
NoCall ==
    [op |-> "none", user_id |-> NoId, username |-> "", email |-> "", password |-> "",
     confirm_password |-> "", phone_number |-> NoPhone, filename |-> ""]

NoSession == [user_id |-> NoId, row |-> NoRow]

NoOut == [caller |-> "", time |-> ImportTime, call |-> NoCall, kind |-> "none", user |-> NoId]

\* UserCreateSchema: username has min_length=4
UserCreateSchema ==
    {[op |-> "register", user_id |-> NoId, username |-> u, email |-> e, password |-> pw,
      confirm_password |-> cf, phone_number |-> ph, filename |-> ""] :
        u \in {x \in Usernames : Len(x) >= MinUsernameLength}, e \in Emails,
        pw \in Passwords, cf \in Passwords, ph \in Phones}

\* the requests that differ in their phone number
PhoneRequests ==
    {[op |-> "register", user_id |-> NoId, username |-> u, email |-> e, password |-> pw,
      confirm_password |-> pw, phone_number |-> ph, filename |-> ""] :
        u \in {x \in Usernames : Len(x) >= MinUsernameLength}, e \in Emails,
        pw \in Passwords, ph \in PhoneSamples}

Errors ==
    {"UsernameAlreadyExistsError", "PasswordConfirmationError", "InvalidPhoneNumberError",
     "PasswordMatchError", "UserNotFoundError", "ImageUploadError", "ValueError",
     "IntegrityError"}

\* a request arrives at caller p: the clock has moved on since the last one
Begin(p) ==
    /\ pc[p] = "idle"
    /\ now < MaxTime
    /\ now' = now + 1
    /\ UNCHANGED imported

\* the operation c of caller p ends: it returns (kind "ok" or "None") or raises
Finish(p, c, kind, user) ==
    /\ pc' = [pc EXCEPT ![p] = "idle"]
    /\ call' = [call EXCEPT ![p] = NoCall]
    /\ session' = [session EXCEPT ![p] = NoSession]
    /\ out' = [caller |-> p, time |-> now', call |-> c, kind |-> kind, user |-> user]

\* the operation c of caller p awaits the store, holding s in its session
Await(p, c, label, s) ==
    /\ pc' = [pc EXCEPT ![p] = label]
    /\ call' = [call EXCEPT ![p] = c]
    /\ session' = [session EXCEPT ![p] = s]
    /\ UNCHANGED out

Init ==
    /\ users = << >>
    /\ files = {}
    /\ now = ImportTime
    /\ imported = ImportTime
    /\ pc = [p \in Callers |-> "idle"]
    /\ call = [p \in Callers |-> NoCall]
    /\ session = [p \in Callers |-> NoSession]
    /\ out = NoOut

\* --------------------------------------------------------- register_new_user
\* register without the comparison of password and confirm_password
RegisterChecks_NoConfirmation(user_data) ==
    IF ByUsername(user_data.username) # {} THEN "UsernameAlreadyExistsError"
    ELSE IF user_data.phone_number # NoPhone /\ ~PhoneMatch(user_data.phone_number)
    THEN "InvalidPhoneNumberError"
    ELSE "ok"

\* the pre-check and the validations, in the order of the code
RegisterChecks(user_data) ==
    IF ByUsername(user_data.username) # {} THEN "UsernameAlreadyExistsError"
    ELSE IF user_data.password # user_data.confirm_password THEN "PasswordConfirmationError"
    ELSE IF user_data.phone_number # NoPhone /\ ~PhoneMatch(user_data.phone_number)
    THEN "InvalidPhoneNumberError"
    ELSE "ok"

\* the checks, the hash and db.add(new_user)
register_new_user(p, user_data) ==
    /\ Begin(p)
    /\ UNCHANGED <<users, files>>
    /\ IF RegisterChecks(user_data) # "ok"
       THEN Finish(p, user_data, RegisterChecks(user_data), NoId)
       ELSE \E salt \in Salts :
            \* the table holds MaxUsers rows: no INSERT is prepared beyond them
            /\ Cardinality(DOMAIN users)
                 + Cardinality({q \in Callers : pc[q] = "register_commit"}) < MaxUsers
            /\ Await(p, user_data, "register_commit",
                     [user_id |-> NoId,
                      row |-> NewUser(user_data, hash(user_data.password, salt))])

\* register_new_user called with the requests of UserCreateSchema
RegisterCheck(p) == \E user_data \in UserCreateSchema : register_new_user(p, user_data)

\* register_new_user called with the phone numbers of PhoneSamples
RegisterCheckPhone(p) == \E user_data \in PhoneRequests : register_new_user(p, user_data)

\* db.commit() of the INSERT, and the IntegrityError handler
RegisterCommit(p) ==
    /\ pc[p] = "register_commit"
    /\ UNCHANGED <<files, now, imported>>
    /\ IF ConstraintsHold(users, NoId, session[p].row)
       THEN /\ users' = (FreshId :> session[p].row) @@ users
            /\ Finish(p, call[p], "ok", FreshId)
       ELSE /\ UNCHANGED users
            /\ Finish(p, call[p], "ValueError", NoId)

\* ------------------------------------------------------------------- lookups
\* get_user_by_id: the row's id, or UserNotFoundError
GetUserById(p) ==
    \E user_id \in Ids \cup {UnknownId} :
        LET c == [NoCall EXCEPT !.op = "get_user_by_id", !.user_id = user_id]
        IN  /\ Begin(p)
            /\ UNCHANGED <<users, files>>
            /\ IF user_id \in DOMAIN users
               THEN Finish(p, c, "ok", user_id)
               ELSE Finish(p, c, "UserNotFoundError", NoId)

\* get_user_by_email: the row's id, or UserNotFoundError
GetUserByEmail(p) ==
    \E email \in Emails :
        LET c == [NoCall EXCEPT !.op = "get_user_by_email", !.email = email]
        IN  /\ Begin(p)
            /\ UNCHANGED <<users, files>>
            /\ IF ByEmail(email) # {}
               THEN Finish(p, c, "ok", CHOOSE id \in ByEmail(email) : TRUE)
               ELSE Finish(p, c, "UserNotFoundError", NoId)

\* --------------------------------------------------------------------- login
\* login without the verification of the password
LoginChecks_NoVerify(email, password) ==
    IF ByEmail(email) = {} THEN "UserNotFoundError" ELSE "ok"

\* get_user_by_email raises on a miss; a failed verification returns None
LoginChecks(email, password) ==
    IF ByEmail(email) = {} THEN "UserNotFoundError"
    ELSE IF ~verify(password, users[CHOOSE id \in ByEmail(email) : TRUE].password) THEN "None"
    ELSE "ok"

\* the checks, and user.last_login = datetime.now(timezone.utc)
LoginCheck(p) ==
    \E email \in Emails, password \in Passwords :
        LET c == [NoCall EXCEPT !.op = "login", !.email = email, !.password = password]
        IN  /\ Begin(p)
            /\ UNCHANGED <<users, files>>
            /\ IF LoginChecks(email, password) # "ok"
               THEN Finish(p, c, LoginChecks(email, password), NoId)
               ELSE LET id == CHOOSE id \in ByEmail(email) : TRUE
                    IN  Await(p, c, "login_commit",
                              [user_id |-> id,
                               row |-> [users[id] EXCEPT !.last_login = now']])

\* db.commit(): the UPDATE of the one attribute the session changed
LoginCommit(p) ==
    /\ pc[p] = "login_commit"
    /\ UNCHANGED <<files, now, imported>>
    /\ users' = Update(users, session[p].user_id, "last_login", session[p].row.last_login)
    /\ Finish(p, call[p], "ok", session[p].user_id)

\* ----------------------------------------------------------- change_password
\* change_password with its two checks in the other order
ChangePasswordChecks_ConfirmationFirst(user_id, new_password, confirm_password) ==
    IF user_id \notin DOMAIN users THEN "ValueError"
    ELSE IF new_password # confirm_password THEN "PasswordConfirmationError"
    ELSE IF verify(new_password, users[user_id].password) THEN "PasswordMatchError"
    ELSE "ok"

\* the SELECT by id and the two checks, in the order of the code
ChangePasswordChecks(user_id, new_password, confirm_password) ==
    IF user_id \notin DOMAIN users THEN "ValueError"
    ELSE IF verify(new_password, users[user_id].password) THEN "PasswordMatchError"
    ELSE IF new_password # confirm_password THEN "PasswordConfirmationError"
    ELSE "ok"

\* the checks and the new hash
ChangePasswordCheck(p) ==
    \E user_id \in Ids \cup {UnknownId}, new_password \in Passwords,
       confirm_password \in Passwords :
        LET c == [NoCall EXCEPT !.op = "change_password", !.user_id = user_id,
                                !.password = new_password,
                                !.confirm_password = confirm_password]
            checks == ChangePasswordChecks(user_id, new_password, confirm_password)
        IN  /\ Begin(p)
            /\ UNCHANGED <<users, files>>
            /\ IF checks # "ok"
               THEN Finish(p, c, checks, NoId)
               ELSE \E salt \in Salts :
                    Await(p, c, "change_password_commit",
                          [user_id |-> user_id,
                           row |-> [NoRow EXCEPT !.password = hash(new_password, salt)]])

\* change_password returning without its UPDATE
ChangePasswordCommit_NoUpdate(p) ==
    /\ pc[p] = "change_password_commit"
    /\ UNCHANGED <<users, files, now, imported>>
    /\ Finish(p, call[p], "ok", session[p].user_id)

\* update(User).where(User.id == user_id).values(password=...) and db.commit()
ChangePasswordCommit(p) ==
    /\ pc[p] = "change_password_commit"
    /\ UNCHANGED <<files, now, imported>>
    /\ users' = Update(users, session[p].user_id, "password", session[p].row.password)
    /\ Finish(p, call[p], "ok", session[p].user_id)

\* ----------------------------------------------------------- change_username
\* change_username without its pre-check
ChangeUsernameChecks_NoPreCheck(user_id, new_username) == "ok"

\* the SELECT by the new username: any row that has it, the caller's own too
ChangeUsernameChecks(user_id, new_username) ==
    IF ByUsername(new_username) # {} THEN "UsernameAlreadyExistsError" ELSE "ok"

ChangeUsernameCheck(p) ==
    \E user_id \in Ids \cup {UnknownId}, new_username \in Usernames :
        LET c == [NoCall EXCEPT !.op = "change_username", !.user_id = user_id,
                                !.username = new_username]
        IN  /\ Begin(p)
            /\ UNCHANGED <<users, files>>
            /\ IF ChangeUsernameChecks(user_id, new_username) # "ok"
               THEN Finish(p, c, ChangeUsernameChecks(user_id, new_username), NoId)
               ELSE Await(p, c, "change_username_commit", NoSession)

\* update(User).where(User.id == user_id).values(username=...) and db.commit();
\* the store's IntegrityError is not handled
ChangeUsernameCommit(p) ==
    /\ pc[p] = "change_username_commit"
    /\ UNCHANGED <<files, now, imported>>
    /\ LET id == call[p].user_id
           updated == Update(users, id, "username", call[p].username)
       IN  IF id \in DOMAIN users /\ ~ConstraintsHold(users, id, updated[id])
           THEN /\ UNCHANGED users
                /\ Finish(p, call[p], "IntegrityError", NoId)
           ELSE /\ users' = updated
                /\ Finish(p, call[p], "ok", id)

\* -------------------------------------------------------------- change_image
\* os.path.join(upload_dir, f"user_{user_id}_{image.filename}")
ImagePath(user_id, filename) == <<user_id, filename>>

\* the file is written, then the UPDATE is committed; an exception of either
\* (fault "io": the write fails; fault "db": the store fails) becomes
\* ImageUploadError
ChangeImage(p) ==
    \E user_id \in Ids \cup {UnknownId}, filename \in Filenames, fault \in Faults :
        LET c == [NoCall EXCEPT !.op = "change_image", !.user_id = user_id,
                                !.filename = filename]
        IN  /\ Begin(p)
            /\ IF fault = "io"
               THEN /\ UNCHANGED <<users, files>>
                    /\ Finish(p, c, "ImageUploadError", NoId)
               ELSE /\ files' = files \cup {ImagePath(user_id, filename)}
                    /\ IF fault = "db"
                       THEN /\ UNCHANGED users
                            /\ Finish(p, c, "ImageUploadError", NoId)
                       ELSE /\ users' = Update(users, user_id, "image",
                                               ImagePath(user_id, filename))
                            /\ Finish(p, c, "ok", user_id)

\* ------------------------------------------------------------ the service
\* the service process is started again, with no request in progress: the
\* module-level datetime.now(timezone.utc) of models/user.py is evaluated anew
\* (a restart that no request follows is left out)
Restart ==
    /\ \A p \in Callers : pc[p] = "idle"
    /\ now < MaxTime
    /\ imported < now
    /\ imported' = now
    /\ UNCHANGED <<users, files, now, pc, call, session, out>>

Step(p) ==
        \/ RegisterCheck(p)
        \/ RegisterCommit(p)
        \/ GetUserById(p)
        \/ GetUserByEmail(p)
        \/ LoginCheck(p)
        \/ LoginCommit(p)
        \/ ChangePasswordCheck(p)
        \/ ChangePasswordCommit(p)
        \/ ChangeUsernameCheck(p)
        \/ ChangeUsernameCommit(p)
        \/ ChangeImage(p)

\* one service process and its concurrent callers
Next == \E p \in Callers : Step(p)

Spec == Init /\ [][Next]_vars

\* the service serving one request at a time, restarted between requests
NextRestart ==
    \/ \E p \in {"c1"} : Step(p)
    \/ Restart

SpecRestart == Init /\ [][NextRestart]_vars

\* registrations over the phone numbers of PhoneSamples
NextPhone == \E p \in Callers : RegisterCheckPhone(p) \/ RegisterCommit(p)

SpecPhone == Init /\ [][NextPhone]_vars

TypeOK ==
    /\ DOMAIN users \subseteq Ids
    /\ \A id \in DOMAIN users :
        /\ users[id].username \in Usernames
        /\ users[id].email \in Emails
        /\ users[id].last_login \in {NoTime} \cup (1..MaxTime)
        /\ users[id].image \in {NoImage} \cup {ImagePath(id, f) : f \in Filenames}
    /\ now \in ImportTime..MaxTime
    /\ imported \in ImportTime..now
    /\ \A p \in Callers :
        /\ pc[p] \in {"idle", "register_commit", "login_commit", "change_password_commit",
                      "change_username_commit"}
        /\ (pc[p] = "idle") = (call[p] = NoCall)
    /\ out.kind \in Errors \cup {"ok", "None", "none"}

\* ================================================================== claims
\* caller p takes a step that ends its operation
Ends(p) == out' # out /\ out'.caller = p

\* a request arrives at caller p in this step
Starts(p) == pc[p] = "idle" /\ now' # now /\ (pc'[p] # "idle" \/ Ends(p))

\* the call of the request that arrives at caller p in this step
Started(p) == IF pc'[p] # "idle" THEN call'[p] ELSE out'.call

\* the accounts other than id that hold username
OtherHolders(id, username) == ByUsername(username) \ {id}

\* C1: in every reachable state no two distinct accounts hold the same username
C1_UsernameUnique ==
    \A a, b \in DOMAIN users : a # b => users[a].username # users[b].username

\* a change_username that passed its pre-check was refused by the store, because
\* a concurrent register took the username first: two accounts, two usernames
C1_Witness ==
    /\ out.call.op = "change_username"
    /\ out.kind = "IntegrityError"
    /\ Len(out.call.username) >= MinUsernameLength
    /\ Cardinality(DOMAIN users) = 2

\* the register call c is valid but for its username: the passwords agree, the
\* phone is well-formed, and in table no account but those in own has its email
OtherwiseValid(c, table, own) ==
    /\ c.op = "register"
    /\ c.password = c.confirm_password
    /\ (c.phone_number = NoPhone \/ PhoneMatch(c.phone_number))
    /\ \A id \in DOMAIN table \ own : table[id].email # c.email

\* C2: of two register calls with the same username, both otherwise valid, that
\* end one after the other (run in sequence or interleaved between pre-check and
\* commit), exactly one returns a new account and the other fails with the
\* username-taken error
C2_ExactlyOneSucceeds ==
    [][LET own == {out.user, out'.user} \ {NoId}
       IN  (/\ out' # out
            /\ OtherwiseValid(out.call, users', own)
            /\ OtherwiseValid(out'.call, users', own)
            /\ out.call.username = out'.call.username
            /\ out.call.email # out'.call.email
            /\ \A id \in DOMAIN users' \ own : users'[id].username # out.call.username)
           => \/ out.kind = "ok" /\ out'.kind = "UsernameAlreadyExistsError"
              \/ out.kind = "UsernameAlreadyExistsError" /\ out'.kind = "ok"]_vars

\* C3: a register call whose commit the store refuses because the username (and
\* not the email) was taken after its pre-check reports the error the pre-check
\* reports for a taken username, UsernameAlreadyExistsError
C3_RaceLoserSameError ==
    [][\A p \in Callers :
        (/\ pc[p] = "register_commit"
         /\ Ends(p)
         /\ ByUsername(call[p].username) # {}
         /\ ByEmail(call[p].email) = {})
        => out'.kind = RegisterChecks(call[p])]_vars

\* C4: a login that does not authenticate never raises: it returns None, for an
\* unknown email as for a wrong password
C4_LoginNeverRaises ==
    (out.call.op = "login" /\ out.kind # "ok") => out.kind = "None"

\* C5: last_login of an account changes only in the commit of a login whose
\* email is the account's and whose password verified against the stored hash
\* it read; a new account has none; a login with an account's email and a
\* password that does not verify returns None and changes no row
C5_LastLoginOnlyByLogin ==
    [][/\ \A id \in DOMAIN users :
            users'[id].last_login # users[id].last_login
            => \E p \in Callers :
                /\ pc[p] = "login_commit" /\ Ends(p) /\ out'.kind = "ok"
                /\ call[p].op = "login"
                /\ call[p].email = users[id].email
                /\ verify(call[p].password, session[p].row.password)
                /\ session[p].row.email = users[id].email
       /\ \A id \in DOMAIN users' \ DOMAIN users : users'[id].last_login = NoTime
       /\ \A p \in Callers :
            (/\ Starts(p)
             /\ Started(p).op = "login"
             /\ \E id \in ByEmail(Started(p).email) :
                    ~verify(Started(p).password, users[id].password))
            => Ends(p) /\ out'.kind = "None" /\ users' = users]_vars

\* a login succeeded and set last_login, and a login with the right email and
\* a wrong password has returned None since
C5_Witness ==
    /\ out.call.op = "login"
    /\ out.kind = "None"
    /\ \E id \in ByEmail(out.call.email) : users[id].last_login # NoTime

\* C6 as stated: a register call whose password differs from confirm_password
\* fails with the password-confirmation error
C6_Original ==
    (out.call.op = "register" /\ out.call.password # out.call.confirm_password)
    => out.kind = "PasswordConfirmationError"

\* C6 amended: a register call whose password differs from confirm_password
\* creates no account and never reaches the commit; it fails with
\* UsernameAlreadyExistsError when its username is taken at the pre-check and
\* with PasswordConfirmationError otherwise
C6_MismatchRejected ==
    [][\A p \in Callers :
        (/\ Starts(p)
         /\ Started(p).op = "register"
         /\ Started(p).password # Started(p).confirm_password)
        => /\ Ends(p)
           /\ users' = users
           /\ out'.kind = IF ByUsername(Started(p).username) # {}
                          THEN "UsernameAlreadyExistsError"
                          ELSE "PasswordConfirmationError"]_vars

\* a register with a free username and differing passwords was refused, with
\* an account in the table
C6_Witness ==
    /\ out.call.op = "register"
    /\ out.call.password # out.call.confirm_password
    /\ out.kind = "PasswordConfirmationError"
    /\ users # << >>

\* C7: change_password on an existing account with a new_password that
\* verifies against the stored hash fails with PasswordMatchError, whatever
\* confirm_password is, and changes no row
C7_ReuseRejected ==
    [][\A p \in Callers :
        (/\ Starts(p)
         /\ Started(p).op = "change_password"
         /\ Started(p).user_id \in DOMAIN users
         /\ verify(Started(p).password, users[Started(p).user_id].password))
        => /\ Ends(p)
           /\ out'.kind = "PasswordMatchError"
           /\ users' = users]_vars

\* the current password was refused as the new one, with a confirm_password
\* that differs from it
C7_Witness ==
    /\ out.call.op = "change_password"
    /\ out.kind = "PasswordMatchError"
    /\ out.call.confirm_password # out.call.password
    /\ verify(out.call.password, users[out.call.user_id].password)

\* C8: change_password with an id that matches no account fails with
\* UserNotFoundError, the error of get_user_by_id for a miss
C8_NotFoundError ==
    (out.call.op = "change_password" /\ out.call.user_id \notin DOMAIN users)
    => out.kind = "UserNotFoundError"

\* C9: change_username(id, u) with u held by another account fails with
\* UsernameAlreadyExistsError and changes no account's username
C9_TakenRejected ==
    [][\A p \in Callers :
        (/\ Starts(p)
         /\ Started(p).op = "change_username"
         /\ OtherHolders(Started(p).user_id, Started(p).username) # {})
        => /\ Ends(p)
           /\ out'.kind = "UsernameAlreadyExistsError"
           /\ DOMAIN users' = DOMAIN users
           /\ \A id \in DOMAIN users : users'[id].username = users[id].username]_vars

\* an account asked for the username of another and was refused; both keep
\* their usernames
C9_Witness ==
    /\ out.call.op = "change_username"
    /\ out.kind = "UsernameAlreadyExistsError"
    /\ out.call.user_id \in DOMAIN users
    /\ OtherHolders(out.call.user_id, out.call.username) # {}
    /\ users[out.call.user_id].username # out.call.username

\* C10: an operation that ends in an error leaves the rows and the image files
\* as they were (the steps before the last one of an operation only read)
C10_AllOrNothing ==
    [][(out' # out /\ out'.kind \in Errors) => (users' = users /\ files' = files)]_vars

Mutates(p, id) ==
    /\ pc[p] \in {"change_password_commit", "change_username_commit"}
         \/ (Starts(p) /\ Started(p).op = "change_image")
    /\ Ends(p)
    /\ out'.kind = "ok"
    /\ out'.user = id
    /\ id \in DOMAIN users

\* C12: a successful change_password, change_username or change_image sets the
\* account's modified to the time at which it runs, and leaves created as it was
C12_ModifiedAdvances ==
    [][\A p \in Callers : \A id \in DOMAIN users :
        Mutates(p, id)
        => /\ users'[id].modified = now'
           /\ users'[id].created = users[id].created]_vars

\* the original statement of C13: a successful login changes last_login of the
\* authenticated account and nothing else
C13_Original ==
    [][\A p \in Callers :
        (pc[p] = "login_commit" /\ Ends(p) /\ out'.kind = "ok")
        => users' = [users EXCEPT ![out'.user].last_login = users'[out'.user].last_login]]_vars

\* C13: a successful login changes, of the authenticated account, last_login and
\* modified (which takes the onupdate value of the serving process) and nothing
\* else; the other accounts and the files stay as they were, and a login that
\* does not succeed changes nothing
C13_LoginChanges ==
    [][\A p \in Callers :
        /\ (pc[p] = "login_commit" /\ Ends(p) /\ out'.kind = "ok")
           => /\ out'.user \in DOMAIN users
              /\ users' = [users EXCEPT ![out'.user].last_login = users'[out'.user].last_login,
                                        ![out'.user].modified = imported]
              /\ files' = files
        /\ (Starts(p) /\ Started(p).op = "login")
           => (users' = users /\ files' = files)]_vars

C13_Witness ==
    /\ out.call.op = "login"
    /\ out.kind = "ok"
    /\ out.user \in DOMAIN users
    /\ users[out.user].last_login = out.time
    /\ users[out.user].modified # users[out.user].created
    /\ Len(users) > 1

\* C14: a lookup by id or by email returns the account or None (on a miss) and
\* never raises
C14_LookupNeverRaises ==
    out.call.op \in {"get_user_by_id", "get_user_by_email"}
    => out.kind \in {"ok", "None"}

\* '+' followed by 1 to 15 decimal digits and nothing else
PlusAndDigits(s) ==
    /\ Len(s) >= 1 + MinDigits
    /\ Len(s) <= 1 + MaxDigits
    /\ s[1] = "+"
    /\ \A i \in 2..Len(s) : IsDigit(s[i])

\* C15: a register call with a free username and matching passwords is refused
\* with InvalidPhoneNumberError, creating no account, exactly when its phone
\* number is neither absent nor '+' followed by 1 to 15 digits and nothing else;
\* every stored phone number is absent or of that form
C15_PhoneAccepted ==
    [][/\ \A p \in Callers :
            (/\ Starts(p)
             /\ Started(p).op = "register"
             /\ ByUsername(Started(p).username) = {}
             /\ Started(p).password = Started(p).confirm_password)
            => IF Started(p).phone_number = NoPhone \/ PlusAndDigits(Started(p).phone_number)
               THEN ~(Ends(p) /\ out'.kind = "InvalidPhoneNumberError")
               ELSE Ends(p) /\ out'.kind = "InvalidPhoneNumberError" /\ users' = users
       /\ \A id \in DOMAIN users' :
            users'[id].phone_number = NoPhone \/ PlusAndDigits(users'[id].phone_number)]_vars

\* C16: every account's username has at least MinUsernameLength characters; a
\* change_username call with a shorter candidate goes past the pre-check, and
\* for an account of the table it ends in an error with no row changed
C16_UsernameLength ==
    [][/\ \A id \in DOMAIN users' : Len(users'[id].username) >= MinUsernameLength
       /\ \A p \in Callers :
            /\ (/\ Starts(p)
                /\ Started(p).op = "change_username"
                /\ Len(Started(p).username) < MinUsernameLength)
               => (pc'[p] = "change_username_commit" /\ users' = users)
            /\ (/\ pc[p] = "change_username_commit"
                /\ Len(call[p].username) < MinUsernameLength
                /\ Ends(p)
                /\ call[p].user_id \in DOMAIN users)
               => (out'.kind \in Errors /\ users' = users)]_vars

C16_Witness ==
    /\ out.call.op = "change_username"
    /\ Len(out.call.username) < MinUsernameLength
    /\ out.call.user_id \in DOMAIN users
    /\ out.kind = "IntegrityError"
    /\ \A id \in DOMAIN users : Len(users[id].username) >= MinUsernameLength

\* C17: change_username(id, u) ends with UsernameAlreadyExistsError only when
\* an account other than id holds u; when none does, u being the account's own
\* username included, the call that ends at once leaves account id with u
C17_TakenOnlyByAnother ==
    [][\A p \in Callers :
        (/\ Starts(p)
         /\ Started(p).op = "change_username"
         /\ OtherHolders(Started(p).user_id, Started(p).username) = {})
        => /\ ~(Ends(p) /\ out'.kind = "UsernameAlreadyExistsError")
           /\ (Ends(p) /\ Started(p).user_id \in DOMAIN users)
              => users'[Started(p).user_id].username = Started(p).username]_vars

\* the original statement of C18: once a change_password to p has returned for
\* an account, a login with the account's email that returns next returns the
\* account when its password is p and no match when it is another one
C18_Original ==
    [][\A p \in Callers :
        (/\ out.call.op = "change_password"
         /\ out.kind = "ok"
         /\ out.user \in DOMAIN users
         /\ Ends(p)
         /\ out'.call.op = "login"
         /\ out'.call.email = users[out.user].email)
        => IF out'.call.password = out.call.password
           THEN out'.kind = "ok" /\ out'.user = out.user
           ELSE out'.kind = "None"]_vars

\* C18: a successful change_password to p leaves the account with a hash that
\* verifies p and no other password, and nothing else changes an account's
\* hash; a login with the account's email that starts while the hash verifies
\* its password returns the account, and one that starts while it does not
\* returns None, whatever runs in between
C18_PasswordInForce ==
    [][/\ \A p \in Callers :
            (pc[p] = "change_password_commit" /\ Ends(p) /\ out'.kind = "ok")
            => /\ out'.user = call[p].user_id
               /\ out'.user \in DOMAIN users'
               /\ \A pw \in Passwords :
                    verify(pw, users'[out'.user].password) <=> pw = call[p].password
       /\ \A id \in DOMAIN users :
            users'[id].password # users[id].password
            => \E p \in Callers :
                /\ pc[p] = "change_password_commit" /\ Ends(p) /\ out'.kind = "ok"
                /\ call[p].user_id = id
       /\ \A p \in Callers : \A id \in DOMAIN users :
            (/\ Starts(p)
             /\ Started(p).op = "login"
             /\ Started(p).email = users[id].email)
            => IF verify(Started(p).password, users[id].password)
               THEN pc'[p] = "login_commit" /\ session'[p].user_id = id
               ELSE Ends(p) /\ out'.kind = "None"
       /\ \A p \in Callers :
            (pc[p] = "login_commit" /\ pc'[p] # pc[p])
            => Ends(p) /\ out'.kind = "ok" /\ out'.user = session[p].user_id]_vars

\* a change_password has just returned while a login that verified the
\* previous password is still to commit
C18_Witness ==
    /\ out.call.op = "change_password"
    /\ out.kind = "ok"
    /\ out.user \in DOMAIN users
    /\ verify(out.call.password, users[out.user].password)
    /\ \E q \in Callers :
        /\ pc[q] = "login_commit"
        /\ session[q].user_id = out.user
        /\ call[q].password # out.call.password

====
